---------------------------- MODULE Spec2Model ----------------------------
(***************************************************************************)
(* DataStructures/RawRouteData.h: PathData (one unpacked edge of a route)  *)
(* and RawRouteData (the result a shortest-path query hands to the         *)
(* descriptor that renders it).                                            *)
(*                                                                         *)
(* Three specifications share the variables below:                         *)
(*   SpecPathData  the two PathData constructors over sampled arguments;   *)
(*   SpecRoute     one RawRouteData whose public fields are assigned in    *)
(*                 any order with sampled values;                          *)
(*   SpecQuery     concurrent queries, each filling its own RawRouteData   *)
(*                 and handing it to the descriptor.                       *)
(***************************************************************************)
EXTENDS Integers, Sequences, FiniteSets

VARIABLES
    segment,    \* SpecPathData: the PathData object last constructed
    args,       \* SpecPathData: the arguments given to that constructor call
    built,      \* SpecPathData: which constructor built `segment`
    route,      \* SpecRoute: the RawRouteData object
    written,    \* SpecRoute: per field, <<v>> for the value last assigned, <<>> if none
    raw_route,  \* SpecQuery: each query's RawRouteData object
    pc,         \* SpecQuery: each query's position
    request,    \* SpecQuery: each query's request
    rendered    \* SpecQuery: what the descriptor read from each handed-off result

vars == <<segment, args, built, route, written,
          raw_route, pc, request, rendered>>

pathDataVars == <<segment, args, built>>
routeVars == <<route, written>>
queryVars == <<raw_route, pc, request, rendered>>

---------------------------------------------------------------------------
(* Scalar types.  `unsigned` and `int` are modelled UnsignedBits wide      *)
(* (scaled down from 32); TurnInstruction keeps its width.                 *)

UnsignedBits == 10

TurnInstructionBits == 8

Pow2(n) == 2 ^ n

\* std::numeric_limits<unsigned>::max()
UnsignedMax == Pow2(UnsignedBits) - 1

\* std::numeric_limits<int>::max()
IntMax == Pow2(UnsignedBits - 1) - 1

\* std::numeric_limits<TurnInstruction>::max()
TurnInstructionMax == Pow2(TurnInstructionBits) - 1

\* The implicit conversion unsigned -> TurnInstruction of turn_instruction(tu)
ToTurnInstruction(v) == v % Pow2(TurnInstructionBits)

---------------------------------------------------------------------------
(* struct PathData *)

PathDataDefault_ZeroDuration ==
    [node |-> UnsignedMax, name_id |-> UnsignedMax,
     segment_duration |-> 0, turn_instruction |-> TurnInstructionMax]

\* PathData::PathData()
PathDataDefault ==
    [node |-> UnsignedMax, name_id |-> UnsignedMax,
     segment_duration |-> UnsignedMax, turn_instruction |-> TurnInstructionMax]

PathData_NameUnset(no, na, tu, dur) ==
    [node |-> no, name_id |-> UnsignedMax,
     segment_duration |-> dur, turn_instruction |-> ToTurnInstruction(tu)]

PathData_SwappedTuDur(no, na, tu, dur) ==
    [node |-> no, name_id |-> na,
     segment_duration |-> tu, turn_instruction |-> ToTurnInstruction(dur)]

\* PathData::PathData(NodeID no, unsigned na, unsigned tu, unsigned dur)
PathData(no, na, tu, dur) ==
    [node |-> no, name_id |-> na,
     segment_duration |-> dur, turn_instruction |-> ToTurnInstruction(tu)]

\* Sampled values of type unsigned: the ends of the unsigned range and the
\* values around the top of the TurnInstruction range.
UnsignedValues ==
    {0, TurnInstructionMax, TurnInstructionMax + 1,
     2 * TurnInstructionMax + 1, UnsignedMax - 1, UnsignedMax}

NoArgs == [no |-> 0, na |-> 0, tu |-> 0, dur |-> 0]

DefaultConstruct ==
    /\ segment' = PathDataDefault
    /\ args' = NoArgs
    /\ built' = "default"
    /\ UNCHANGED <<routeVars, queryVars>>

PopulatingConstruct ==
    \E no \in UnsignedValues, na \in UnsignedValues,
       tu \in UnsignedValues, dur \in UnsignedValues :
        /\ segment' = PathData(no, na, tu, dur)
        /\ args' = [no |-> no, na |-> na, tu |-> tu, dur |-> dur]
        /\ built' = "populating"
        /\ UNCHANGED <<routeVars, queryVars>>

---------------------------------------------------------------------------
(* struct RawRouteData *)

RawRouteDataDefault_ZeroLength ==
    [unpacked_path_segments |-> <<>>,
     unpacked_alternative |-> <<>>,
     segment_end_coordinates |-> <<>>,
     raw_via_node_coordinates |-> <<>>,
     check_sum |-> UnsignedMax,
     shortest_path_length |-> 0,
     alternative_path_length |-> 0,
     source_traversed_in_reverse |-> FALSE,
     target_traversed_in_reverse |-> FALSE,
     alt_source_traversed_in_reverse |-> FALSE,
     alt_target_traversed_in_reverse |-> FALSE]

\* RawRouteData::RawRouteData(): the four vectors are default-constructed
\* (empty), the scalars are set by the initialiser list.
RawRouteDataDefault ==
    [unpacked_path_segments |-> <<>>,
     unpacked_alternative |-> <<>>,
     segment_end_coordinates |-> <<>>,
     raw_via_node_coordinates |-> <<>>,
     check_sum |-> UnsignedMax,
     shortest_path_length |-> IntMax,
     alternative_path_length |-> IntMax,
     source_traversed_in_reverse |-> FALSE,
     target_traversed_in_reverse |-> FALSE,
     alt_source_traversed_in_reverse |-> FALSE,
     alt_target_traversed_in_reverse |-> FALSE]

PrimaryFields ==
    {"unpacked_path_segments", "shortest_path_length",
     "source_traversed_in_reverse", "target_traversed_in_reverse"}

AlternativeFields ==
    {"unpacked_alternative", "alternative_path_length",
     "alt_source_traversed_in_reverse", "alt_target_traversed_in_reverse"}

ReverseFlags ==
    {"source_traversed_in_reverse", "target_traversed_in_reverse",
     "alt_source_traversed_in_reverse", "alt_target_traversed_in_reverse"}

Fields ==
    PrimaryFields \cup AlternativeFields \cup
    {"segment_end_coordinates", "raw_via_node_coordinates", "check_sum"}

Assign_Narrowing(r, f, v) ==
    IF f = "check_sum"
    THEN [r EXCEPT ![f] = v % Pow2(TurnInstructionBits)]
    ELSE [r EXCEPT ![f] = v]

Assign_SharedReverseBit(r, f, v) ==
    CASE f = "source_traversed_in_reverse" ->
            [r EXCEPT ![f] = v, !["alt_source_traversed_in_reverse"] = v]
      [] f = "target_traversed_in_reverse" ->
            [r EXCEPT ![f] = v, !["alt_target_traversed_in_reverse"] = v]
      [] OTHER -> [r EXCEPT ![f] = v]

\* r.f = v on a public data member: the member takes the value, no other
\* member is touched.
Assign(r, f, v) == [r EXCEPT ![f] = v]

\* Opaque collaborators' values: PhantomNodes and FixedPointCoordinate.
PhantomNodesAt(i) == [source_phantom |-> 2 * i - 1, target_phantom |-> 2 * i]

CoordinateAt(i) == [lat |-> 10 * i, lon |-> 10 * i + 1]

\* Sampled PathData values, each built by the populating constructor.
SegmentAt(i) == PathData(i, 10 + i, i % 3, 20 + i)

\* Sampled values of each field's type.
FieldValues(f) ==
    CASE f = "unpacked_path_segments" ->
            { << <<SegmentAt(1), SegmentAt(2), SegmentAt(3)>> >>,
              << <<SegmentAt(1)>>, <<SegmentAt(2)>> >> }
      [] f = "unpacked_alternative" ->
            { <<SegmentAt(2)>>, <<SegmentAt(3), SegmentAt(1)>> }
      [] f = "segment_end_coordinates" ->
            { <<PhantomNodesAt(1)>>, <<PhantomNodesAt(1), PhantomNodesAt(2)>> }
      [] f = "raw_via_node_coordinates" ->
            { <<CoordinateAt(1)>>, <<CoordinateAt(2), CoordinateAt(1)>> }
      [] f = "check_sum" -> {1, UnsignedMax - 1}
      [] f \in {"shortest_path_length", "alternative_path_length"} ->
            {0, IntMax - 1}
      [] OTHER -> BOOLEAN

NothingWritten == [f \in Fields |-> <<>>]

Construct ==
    /\ route' = RawRouteDataDefault
    /\ written' = NothingWritten
    /\ UNCHANGED <<pathDataVars, queryVars>>

WriteField ==
    \E f \in Fields :
        \E v \in FieldValues(f) :
            /\ route' = Assign(route, f, v)
            /\ written' = [written EXCEPT ![f] = <<v>>]
            /\ UNCHANGED <<pathDataVars, queryVars>>

---------------------------------------------------------------------------
(* The query task that owns a RawRouteData: it constructs the result,      *)
(* fills it from the search and hands it to the descriptor, which reads it.*)

MaxVia == 1

\* The most PathData entries a result's primary path, or its alternative,
\* holds.
MaxSegments == 3

Query == {"q1", "q2"}

\* A request: its number of intermediate via points, and whether an
\* alternative is asked for (alternatives exist for two-point queries only).
Requests ==
    {r \in [vias : 0..MaxVia, alternative : BOOLEAN] :
        r.alternative => r.vias = 0}

Legs(q) == request[q].vias + 1

\* The data version of the loaded graph, a real checksum.
DataVersion == UnsignedMax - 1

RECURSIVE Duration(_)
Duration(path) ==
    IF path = <<>> THEN 0
    ELSE Head(path).segment_duration + Duration(Tail(path))

RECURSIVE TotalDuration(_)
TotalDuration(legs) ==
    IF legs = <<>> THEN 0
    ELSE Duration(Head(legs)) + TotalDuration(Tail(legs))

RECURSIVE TotalSegments(_)
TotalSegments(legs) ==
    IF legs = <<>> THEN 0
    ELSE Len(Head(legs)) + TotalSegments(Tail(legs))

NoSegments(legs) == \A i \in 1..Len(legs) : legs[i] = <<>>

MayWrite_AfterHandoff(q, at) == pc[q] \in {at, "handed_off"}

\* The owner writes its result only at the position the step belongs to,
\* which is before the handoff.
MayWrite(q, at) == pc[q] = at

Store(q, r, next) ==
    /\ raw_route' = [raw_route EXCEPT ![q] = r]
    /\ pc' = [pc EXCEPT ![q] = next]
    /\ UNCHANGED <<pathDataVars, routeVars, request, rendered>>

Prepare(q) ==
    /\ MayWrite(q, "constructed")
    /\ Store(q, Assign(raw_route[q], "check_sum", DataVersion), "locating")

EndpointsWanted_OnePerWaypoint(q) == Legs(q) + 1

\* One PhantomNodes entry per leg.
EndpointsWanted(q) == Legs(q)

AddLegEndpoints(q) ==
    LET have == raw_route[q].segment_end_coordinates IN
    /\ MayWrite(q, "locating")
    /\ Len(have) < EndpointsWanted(q)
    /\ Store(q, Assign(raw_route[q], "segment_end_coordinates",
                       Append(have, PhantomNodesAt(Len(have) + 1))), "locating")

AddViaCoordinate(q) ==
    LET have == raw_route[q].raw_via_node_coordinates IN
    /\ MayWrite(q, "locating")
    /\ Len(have) < request[q].vias
    /\ Store(q, Assign(raw_route[q], "raw_via_node_coordinates",
                       Append(have, CoordinateAt(Len(have) + 1))), "locating")

Located(q) ==
    /\ Len(raw_route[q].segment_end_coordinates) = EndpointsWanted(q)
    /\ Len(raw_route[q].raw_via_node_coordinates) = request[q].vias

\* No feasible route: the result keeps the lengths it was constructed with.
SearchFails(q) ==
    /\ MayWrite(q, "locating")
    /\ Located(q)
    /\ Store(q, raw_route[q], "ready")

SearchFinds(q) ==
    /\ MayWrite(q, "locating")
    /\ Located(q)
    /\ Store(q, raw_route[q], "unpacking")

BeginLeg(q) ==
    LET legs == raw_route[q].unpacked_path_segments IN
    /\ MayWrite(q, "unpacking")
    /\ Len(legs) < Legs(q)
    /\ legs # <<>> => legs[Len(legs)] # <<>>
    /\ Store(q, Assign(raw_route[q], "unpacked_path_segments",
                       Append(legs, <<>>)), "unpacking")

UnpackSegment(q) ==
    LET legs == raw_route[q].unpacked_path_segments
        n == Len(legs) IN
    /\ MayWrite(q, "unpacking")
    /\ n > 0
    /\ TotalSegments(legs) + (Legs(q) - n) < MaxSegments
    /\ Store(q, Assign(raw_route[q], "unpacked_path_segments",
                       [legs EXCEPT ![n] = Append(@, SegmentAt(Len(@) + 1))]),
             "unpacking")

FinishPrimary(q) ==
    LET legs == raw_route[q].unpacked_path_segments IN
    /\ MayWrite(q, "unpacking")
    /\ Len(legs) = Legs(q)
    /\ legs[Len(legs)] # <<>>
    /\ \E sr \in BOOLEAN, tr \in BOOLEAN :
          Store(q,
                Assign(Assign(Assign(raw_route[q],
                    "shortest_path_length", TotalDuration(legs)),
                    "source_traversed_in_reverse", sr),
                    "target_traversed_in_reverse", tr),
                "alternative")

AlternativeFound(q) ==
    /\ MayWrite(q, "alternative")
    /\ request[q].alternative
    /\ \E n \in 1..MaxSegments, sr \in BOOLEAN, tr \in BOOLEAN :
          LET alt == [i \in 1..n |-> SegmentAt(n + 1 - i)] IN
          Store(q,
                Assign(Assign(Assign(Assign(raw_route[q],
                    "unpacked_alternative", alt),
                    "alternative_path_length", Duration(alt)),
                    "alt_source_traversed_in_reverse", sr),
                    "alt_target_traversed_in_reverse", tr),
                "ready")

\* No alternative asked for, or none found: the alternative fields stay as
\* constructed.
NoAlternative(q) ==
    /\ MayWrite(q, "alternative")
    /\ Store(q, raw_route[q], "ready")

Handoff(q) ==
    /\ pc[q] = "ready"
    /\ pc' = [pc EXCEPT ![q] = "handed_off"]
    /\ UNCHANGED <<pathDataVars, routeVars, raw_route, request, rendered>>

\* The descriptor decides "no route" from the length sentinel alone.
Describe(q) ==
    /\ pc[q] = "handed_off"
    /\ rendered' = [rendered EXCEPT ![q] =
           IF raw_route[q].shortest_path_length = IntMax
           THEN "no_route" ELSE "route"]
    /\ pc' = [pc EXCEPT ![q] = "consumed"]
    /\ UNCHANGED <<pathDataVars, routeVars, raw_route, request>>

---------------------------------------------------------------------------
(* Specifications *)

IdlePathData ==
    /\ segment = PathDataDefault
    /\ args = NoArgs
    /\ built = "default"

IdleRoute ==
    /\ route = RawRouteDataDefault
    /\ written = NothingWritten

InitQuery ==
    /\ raw_route = [q \in Query |-> RawRouteDataDefault]
    /\ pc = [q \in Query |-> "constructed"]
    /\ request \in [Query -> Requests]
    /\ rendered = [q \in Query |-> "nothing"]

IdleQuery ==
    /\ InitQuery
    /\ request = [q \in Query |-> [vias |-> 0, alternative |-> FALSE]]

InitPathData == IdlePathData /\ IdleRoute /\ IdleQuery

NextPathData == DefaultConstruct \/ PopulatingConstruct

SpecPathData == InitPathData /\ [][NextPathData]_vars

InitRoute == IdlePathData /\ IdleRoute /\ IdleQuery

NextRoute == Construct \/ WriteField

SpecRoute == InitRoute /\ [][NextRoute]_vars

InitQueries == IdlePathData /\ IdleRoute /\ InitQuery

NextQuery ==
    \E q \in Query :
        \/ Prepare(q)
        \/ AddLegEndpoints(q)
        \/ AddViaCoordinate(q)
        \/ SearchFails(q)
        \/ SearchFinds(q)
        \/ BeginLeg(q)
        \/ UnpackSegment(q)
        \/ FinishPrimary(q)
        \/ AlternativeFound(q)
        \/ NoAlternative(q)
        \/ Handoff(q)
        \/ Describe(q)

SpecQuery == InitQueries /\ [][NextQuery]_vars

---------------------------------------------------------------------------
(* Properties of PathData (SpecPathData) *)

\* C1: a PathData built by the four-argument constructor reads back, in
\* every field, exactly the argument passed for it: node the 1st, name_id
\* the 2nd, turn_instruction the 3rd, segment_duration the 4th, with no
\* narrowing or wrap-around.
C1_FieldsEqualArguments ==
    built = "populating" =>
        /\ segment.node = args.no
        /\ segment.name_id = args.na
        /\ segment.turn_instruction = args.tu
        /\ segment.segment_duration = args.dur

\* C3: a default-constructed PathData has node, name_id and
\* segment_duration at the unsigned maximum and turn_instruction at the
\* maximum of the TurnInstruction type.
C3_DefaultPathDataIsSentinel ==
    built = "default" =>
        /\ segment.node = UnsignedMax
        /\ segment.name_id = UnsignedMax
        /\ segment.segment_duration = UnsignedMax
        /\ segment.turn_instruction = TurnInstructionMax

C3_Witness ==
    /\ built = "default"
    /\ segment.node = UnsignedMax
    /\ segment.turn_instruction = TurnInstructionMax
    /\ segment.turn_instruction # segment.node

AllSentinel(s) ==
    /\ s.node = UnsignedMax
    /\ s.name_id = UnsignedMax
    /\ s.segment_duration = UnsignedMax
    /\ s.turn_instruction = TurnInstructionMax

AllSet(s) ==
    /\ s.node # UnsignedMax
    /\ s.name_id # UnsignedMax
    /\ s.segment_duration # UnsignedMax
    /\ s.turn_instruction # TurnInstructionMax

\* Real values: values of the field's own type other than its sentinel.
RealArgs(a) ==
    /\ a.no < UnsignedMax
    /\ a.na < UnsignedMax
    /\ a.tu < TurnInstructionMax
    /\ a.dur < UnsignedMax

\* C5 as claimed: every constructible PathData has its four fields all set
\* or all at their sentinels, whatever arguments the populating constructor
\* is given.
C5_AllSetOrAllSentinel == AllSet(segment) \/ AllSentinel(segment)

\* C5 as amended: a default-constructed PathData has all four fields at
\* their sentinels, and one built by the populating constructor from real
\* arguments (each a value of its field's type below that field's sentinel)
\* has all four fields set.
C5_AllOrNothingForRealArguments ==
    /\ built = "default" => AllSentinel(segment)
    /\ (built = "populating" /\ RealArgs(args)) => AllSet(segment)

C5_Witness ==
    /\ built = "populating"
    /\ RealArgs(args)
    /\ args.na = UnsignedMax - 1
    /\ AllSet(segment)

PathDataFields == {"node", "name_id", "segment_duration", "turn_instruction"}

---------------------------------------------------------------------------
(* Properties of RawRouteData (SpecRoute) *)

\* C2: a default-constructed RawRouteData has shortest_path_length and
\* alternative_path_length at the int maximum, check_sum at the unsigned
\* maximum, the four reversal flags false and the four sequences empty.
C2_DefaultRouteIsEmpty ==
    written = NothingWritten =>
        /\ route.shortest_path_length = IntMax
        /\ route.alternative_path_length = IntMax
        /\ route.check_sum = UnsignedMax
        /\ \A f \in ReverseFlags : route[f] = FALSE
        /\ route.unpacked_path_segments = <<>>
        /\ route.unpacked_alternative = <<>>
        /\ route.segment_end_coordinates = <<>>
        /\ route.raw_via_node_coordinates = <<>>

C2_Witness ==
    /\ written = NothingWritten
    /\ route.shortest_path_length = IntMax
    /\ route.check_sum = UnsignedMax
    /\ Len(route.unpacked_path_segments) = 0

\* C7: round trip: every field that has been written reads back as exactly
\* the value last written to it.
C7_RoundTrip ==
    \A f \in Fields : written[f] # <<>> => route[f] = written[f][1]

C7_Witness ==
    /\ \A f \in Fields : written[f] # <<>>
    /\ route.check_sum = UnsignedMax - 1
    /\ Len(route.unpacked_path_segments) = 2
    /\ route.source_traversed_in_reverse
    /\ ~route.alt_source_traversed_in_reverse

\* C10: a write to one field leaves every other field as it was: primary
\* writes leave the alternative fields alone and the reverse, and each
\* reversal flag is independent of the other three.
C10_WritesAreIndependent ==
    [][\A f \in Fields : written'[f] = written[f] => route'[f] = route[f]]_vars

\* A fully populated primary route beside an alternative left as constructed.
C10_Witness ==
    /\ \A f \in PrimaryFields : written[f] # <<>>
    /\ \A f \in AlternativeFields : written[f] = <<>>
    /\ route.source_traversed_in_reverse
    /\ ~route.target_traversed_in_reverse
    /\ route.shortest_path_length # IntMax
    /\ route.alternative_path_length = IntMax
    /\ route.unpacked_alternative = <<>>
    /\ ~route.alt_source_traversed_in_reverse

---------------------------------------------------------------------------
(* Properties of the query task and the handoff (SpecQuery) *)

HandedOff(q) == pc[q] \in {"handed_off", "consumed"}

C8_OneEntryPerLeg ==
    \A q \in Query :
        HandedOff(q) =>
            /\ Len(raw_route[q].segment_end_coordinates) = request[q].vias + 1
            /\ Len(raw_route[q].raw_via_node_coordinates) = request[q].vias
            /\ raw_route[q].shortest_path_length # IntMax
                  => Len(raw_route[q].unpacked_path_segments) = request[q].vias + 1

\* One via point: two leg endpoints, one via coordinate, two legs.
C8_Witness ==
    /\ HandedOff("q1")
    /\ request["q1"].vias = 1
    /\ Len(raw_route["q1"].segment_end_coordinates) = 2
    /\ Len(raw_route["q1"].raw_via_node_coordinates) = 1
    /\ Len(raw_route["q1"].unpacked_path_segments) = 2
    /\ raw_route["q1"].shortest_path_length # IntMax

KeepsSegments(old, new) ==
    \A i \in 1..Len(old) :
        /\ i <= Len(new)
        /\ Len(old[i]) <= Len(new[i])
        /\ SubSeq(new[i], 1, Len(old[i])) = old[i]

===========================================================================
